---------------------------- MODULE Spec2Model ----------------------------
(***************************************************************************)
(* A model of the BMSCE assistant: the document chunker and the ingestion  *)
(* of vector_db.py, the tool-call extractor and the interactive client of  *)
(* client.py, and the tool backend of main.py with its knowledge query.    *)
(*                                                                         *)
(* Strings are sequences of characters (the chunker) or of lexical tokens  *)
(* (the model's output read by the extractor), so that slicing, trimming,  *)
(* searching and parsing are computed the way Python computes them.        *)
(***************************************************************************)
EXTENDS Integers, Sequences, FiniteSets, TLC

VARIABLES
    \* ---- split_text (vector_db.py) ----
    text,          \* the argument text
    chunk_size,    \* the argument chunk_size
    overlap,       \* the argument overlap
    start,         \* the local start
    chunks,        \* the local chunks, the list returned
    spans,         \* history: for each chunk, the half-open range of text it was cut from
    iters,         \* history: how many times the loop body has run
    cpc,           \* "loop": at the while test, "returned": after return, "idle": not called
    \* ---- MCPClient._extract_tool_call (client.py) ----
    response,      \* the argument text: the model's output, a sequence of tokens
    tool_call,     \* the value returned
    epc,           \* "call": called, "returned": after return, "idle": not called
    \* ---- MCPClient and main (client.py) ----
    pc,                \* where main is: "init", "input", "turn", "finally", "exited", "idle";
                       \* "called" after a method was called from outside main
    session,           \* self.session: "None" or "set"
    available_tools,   \* self.available_tools: the names of the tools listed at connect
    client_context,    \* self.client_context: "None" or "set"
    session_context,   \* self.session_context: "None" or "set"
    transport_res,     \* history: the transport context is "none", "entered" or "released"
    session_res,       \* history: the session context is "none", "entered" or "released"
    user_input,        \* user_input of main, after strip()
    turn,              \* history: what the last call of chat_with_mistral did
    loop_end,          \* history: how the while loop of main was left, "none" while it runs
    raised,            \* history: the exception main ended with, "none" if none
    close_called,      \* history: close() has been called
    exit_calls,        \* history: the calls of __aexit__ so far, "session" or "transport" each
    direct_call,       \* history: a call of process_tool_call made from outside main
    last_line,         \* history: the line input() returned last, before strip()
    \* ---- the collection "docs" (vector_db.py, main.py) ----
    collection,            \* the entries of the collection, [id, document] each
    collection_available,  \* the truth value of collection at main.py line 32
    on_existing,           \* what the store does with an added id it already holds
    ingests,               \* history: the calls of add_pdf_to_vectordb, [path, pdf, ids] each
    store_before,          \* history: the entries before the last call of add_pdf_to_vectordb
    query_call,            \* history: the last call of query_knowledge_base
    spc                    \* "ready": the collection is in use, "idle": it is not

chunkVars == <<text, chunk_size, overlap, start, chunks, spans, iters, cpc>>
extractVars == <<response, tool_call, epc>>
clientVars == <<pc, session, available_tools, client_context, session_context,
                transport_res, session_res, user_input, turn, loop_end, raised,
                close_called, exit_calls, direct_call, last_line>>

storeVars == <<collection, collection_available, on_existing, ingests, store_before,
               query_call, spc>>

vars == <<chunkVars, extractVars, clientVars, storeVars>>

-----------------------------------------------------------------------------
(* Bounds *)

MaxTextLen == 4
MaxChunkSize == 3

\* The loop of split_text is cut after this many iterations.  With
\* 0 <= overlap < chunk_size it runs at most Len(text) times, so the cut is
\* reached only by calls that would not end.
MaxIters == MaxTextLen + 2

\* The longest model output the extractor is run on by itself
MaxResponseLen == 5

-----------------------------------------------------------------------------
(* Python primitives *)

Min(a, b) == IF a < b THEN a ELSE b
Max(a, b) == IF a > b THEN a ELSE b

\* str.isspace of one character (or of one lexical token of whitespace)
IsSpace(c) == c \in {" ", "\n"}

\* All sequences over S of length at most n
SeqsUpTo(S, n) == UNION {[1..k -> S] : k \in 0..n}

\* The bound of a slice: a negative index counts from the end, and every
\* index is clamped into 0..n
SliceIndex(k, n) == IF k < 0 THEN Max(k + n, 0) ELSE Min(k, n)

\* s[i:j] with 0-based i and j
PySlice(s, i, j) ==
    LET lo == SliceIndex(i, Len(s))
        hi == SliceIndex(j, Len(s))
    IN  IF hi <= lo THEN << >> ELSE SubSeq(s, lo + 1, hi)

\* The number of whitespace characters s starts with
RECURSIVE LeadingSpaces(_)
LeadingSpaces(s) ==
    IF s = << >> \/ ~IsSpace(Head(s)) THEN 0 ELSE 1 + LeadingSpaces(Tail(s))

\* The number of whitespace characters s ends with
RECURSIVE TrailingSpaces(_)
TrailingSpaces(s) ==
    IF s = << >> \/ ~IsSpace(s[Len(s)]) THEN 0
    ELSE 1 + TrailingSpaces(SubSeq(s, 1, Len(s) - 1))

\* str.strip()
Strip(s) ==
    IF LeadingSpaces(s) = Len(s) THEN << >>
    ELSE SubSeq(s, LeadingSpaces(s) + 1, Len(s) - TrailingSpaces(s))

-----------------------------------------------------------------------------
(* The model's output and json.loads *)

\* The model's output is a sequence of tokens: braces and commas, members of
\* a JSON object ("key:value" is the member "key": "value", and "arguments:"
\* is the key "arguments" and its colon, to be followed by an object), a run
\* of prose without braces, the two fence markers ("fence:json" is the
\* marker that opens a json block, "fence" the bare marker), and whitespace.
ToolTokens == {"tool:none", "tool:get_latest_news", "tool:get_college_notifications",
               "tool:query_knowledge_base", "tool:make_coffee"}
MemberTokens == ToolTokens \cup {"query_text:q", "other:1"}

MemberKey(tok) ==
    IF tok \in ToolTokens THEN "tool"
    ELSE IF tok = "query_text:q" THEN "query_text" ELSE "other"

MemberValue(tok) ==
    CASE tok = "tool:none" -> "none"
      [] tok = "tool:get_latest_news" -> "get_latest_news"
      [] tok = "tool:get_college_notifications" -> "get_college_notifications"
      [] tok = "tool:query_knowledge_base" -> "query_knowledge_base"
      [] tok = "tool:make_coffee" -> "make_coffee"
      [] tok = "query_text:q" -> "q"
      [] OTHER -> "1"

\* A dict is a function from its keys; d[k] = v replaces the value of a key
\* that is there already
EmptyDict == [k \in {} |-> k]
Put(d, k, v) == [x \in DOMAIN d \cup {k} |-> IF x = k THEN v ELSE d[x]]

\* Optional[dict]
None == [is_none |-> TRUE, dict |-> EmptyDict]
Some(d) == [is_none |-> FALSE, dict |-> d]

\* The token at 1-based position i, or an end marker
TokenAt(s, i) == IF i \in 1..Len(s) THEN s[i] ELSE "<end>"

\* The first position from i on that holds no whitespace
RECURSIVE SkipSpaces(_, _)
SkipSpaces(s, i) ==
    IF i <= Len(s) /\ IsSpace(s[i]) THEN SkipSpaces(s, i + 1) ELSE i

ParseFailed == [ok |-> FALSE, val |-> EmptyDict, next |-> 0]

\* The JSON object that starts at the "{" at position i: [ok, val, next],
\* next being the position after its "}"
RECURSIVE ParseObject(_, _)
RECURSIVE ParseMembers(_, _, _)
RECURSIVE AfterMember(_, _, _)
ParseObject(s, i) ==
    LET j == SkipSpaces(s, i + 1)
    IN  IF TokenAt(s, j) = "}"
        THEN [ok |-> TRUE, val |-> EmptyDict, next |-> j + 1]
        ELSE ParseMembers(s, j, EmptyDict)

\* A member is expected at position i; d holds the members read so far
ParseMembers(s, i, d) ==
    LET tok == TokenAt(s, i)
    IN  IF tok \in MemberTokens
        THEN AfterMember(s, i + 1, Put(d, MemberKey(tok), MemberValue(tok)))
        ELSE IF tok = "arguments:" /\ TokenAt(s, SkipSpaces(s, i + 1)) = "{"
        THEN LET r == ParseObject(s, SkipSpaces(s, i + 1))
             IN  IF r.ok THEN AfterMember(s, r.next, Put(d, "arguments", r.val))
                 ELSE ParseFailed
        ELSE ParseFailed

\* After a member: a comma and the next member, or the closing brace
AfterMember(s, i, d) ==
    LET j == SkipSpaces(s, i)
    IN  IF TokenAt(s, j) = "}" THEN [ok |-> TRUE, val |-> d, next |-> j + 1]
        ELSE IF TokenAt(s, j) = "," THEN ParseMembers(s, SkipSpaces(s, j + 1), d)
        ELSE ParseFailed

\* json.loads(s) for an s that is to hold an object: [ok, val]; ok is FALSE
\* where json.loads raises (no object, a syntax error, or data after it)
json_loads(s) ==
    LET i == SkipSpaces(s, 1)
        r == IF TokenAt(s, i) = "{" THEN ParseObject(s, i) ELSE ParseFailed
    IN  IF r.ok /\ SkipSpaces(s, r.next) = Len(s) + 1
        THEN [ok |-> TRUE, val |-> r.val]
        ELSE [ok |-> FALSE, val |-> EmptyDict]

-----------------------------------------------------------------------------
(* The parts of the program a specification does not run stay as they are *)

\* No call of chat_with_mistral yet
NoTurn ==
    [ran |-> FALSE, response |-> << >>, classified |-> "none", events |-> << >>,
     failure |-> "none", raised |-> "none"]

\* No call of query_knowledge_base has been made
NoQuery ==
    [ran |-> FALSE, query_text |-> "", n_results |-> 0, query_raised |-> FALSE,
     raised |-> FALSE, returned |-> << >>, store_queried |-> FALSE]

StoreIdle ==
    /\ collection = << >>
    /\ collection_available = TRUE
    /\ on_existing = "keep"
    /\ ingests = << >>
    /\ store_before = << >>
    /\ query_call = NoQuery
    /\ spc = "idle"

ChunkIdle ==
    /\ text = << >>
    /\ chunk_size = 1
    /\ overlap = 0
    /\ start = 0
    /\ chunks = << >>
    /\ spans = << >>
    /\ iters = 0
    /\ cpc = "idle"

ExtractIdle ==
    /\ response = << >>
    /\ tool_call = None
    /\ epc = "idle"

\* No call of process_tool_call from outside main has been made
NoDirectCall ==
    [ran |-> FALSE, session |-> "None", outcome |-> "none", failure |-> "none",
     events |-> << >>]

ClientIdle ==
    /\ pc = "idle"
    /\ session = "None"
    /\ available_tools = {}
    /\ client_context = "None"
    /\ session_context = "None"
    /\ transport_res = "none"
    /\ session_res = "none"
    /\ user_input = << >>
    /\ turn = NoTurn
    /\ loop_end = "none"
    /\ raised = "none"
    /\ close_called = FALSE
    /\ exit_calls = << >>
    /\ direct_call = NoDirectCall
    /\ last_line = << >>

-----------------------------------------------------------------------------
(* MCPClient._extract_tool_call, client.py *)

\* str.replace(tok, '')
Remove(s, tok) == SelectSeq(s, LAMBDA x : x # tok)

\* str.find(tok): the 0-based index of the first tok, or -1
RECURSIVE FindFrom(_, _, _)
FindFrom(s, tok, i) ==
    IF i > Len(s) THEN -1
    ELSE IF s[i] = tok THEN i - 1 ELSE FindFrom(s, tok, i + 1)
Find(s, tok) == FindFrom(s, tok, 1)

\* A search that stops at the first tok instead of the last
RFind_FirstMatch(s, tok) == FindFrom(s, tok, 1)

\* str.rfind(tok): the 0-based index of the last tok, or -1
RECURSIVE RFindFrom(_, _, _)
RFindFrom(s, tok, i) ==
    IF i < 1 THEN -1
    ELSE IF s[i] = tok THEN i - 1 ELSE RFindFrom(s, tok, i - 1)
RFind(s, tok) == RFindFrom(s, tok, Len(s))

\* text.replace('```json', '').replace('```', '').strip()
StripFences(s) == Strip(Remove(Remove(s, "fence:json"), "fence"))

\* _extract_tool_call(text), lines 172-185
extract_tool_call(s) ==
    LET t == StripFences(s)
        first == Find(t, "{")
        end == RFind(t, "}") + 1
    IN  IF first # -1 /\ end > first
        THEN LET parsed == json_loads(PySlice(t, first, end))
             IN  IF parsed.ok THEN Some(parsed.val) ELSE None
        ELSE None

ExtractTokens == {"{", "}", ",", "tool:none", "arguments:", "prose", "fence:json", "fence", "\n"}
ExtractResponses == SeqsUpTo(ExtractTokens, MaxResponseLen)

InitExtract ==
    /\ response \in ExtractResponses
    /\ tool_call = None
    /\ epc = "call"
    /\ ChunkIdle
    /\ ClientIdle
    /\ StoreIdle

ExtractToolCall ==
    /\ epc = "call"
    /\ tool_call' = extract_tool_call(response)
    /\ epc' = "returned"
    /\ UNCHANGED response
    /\ UNCHANGED <<chunkVars, clientVars, storeVars>>

NextExtract == ExtractToolCall

SpecExtract == InitExtract /\ [][NextExtract]_vars

-----------------------------------------------------------------------------
(* Properties of _extract_tool_call *)

\* The 0-based index of the "}" that closes the brace opened before position
\* i, depth braces being open there; -1 if there is none
RECURSIVE MatchFrom(_, _, _)
MatchFrom(s, i, depth) ==
    IF i > Len(s) THEN -1
    ELSE IF s[i] = "{" THEN MatchFrom(s, i + 1, depth + 1)
    ELSE IF s[i] = "}"
         THEN IF depth = 1 THEN i - 1 ELSE MatchFrom(s, i + 1, depth - 1)
    ELSE MatchFrom(s, i + 1, depth)

\* The 0-based index of the "}" matching the "{" at 0-based index first
MatchingClose(s, first) == IF first = -1 THEN -1 ELSE MatchFrom(s, first + 2, 1)

\* Text around an object: prose without braces, fence markers, whitespace
IsWrapping(s) == \A p \in 1..Len(s) : s[p] \in {"prose", "fence:json", "fence", "\n"}

\* s is one well-formed JSON object and nothing else
IsObject(s) ==
    /\ s # << >>
    /\ s[1] = "{"
    /\ ParseObject(s, 1).ok
    /\ ParseObject(s, 1).next = Len(s) + 1

\* C4: the extractor reads from the first "{" to the "}" matching it by brace
\* depth: when that stretch is a well-formed object and another "}" follows
\* it, the first object is what is returned.
C4_FirstObjectByBraceDepth ==
    epc = "returned" =>
        LET t == StripFences(response)
            first == Find(t, "{")
            close == MatchingClose(t, first)
            object == json_loads(PySlice(t, first, close + 1))
        IN  (first # -1 /\ close # -1 /\ object.ok /\ RFind(t, "}") > close)
                => tool_call = Some(object.val)

\* C5: an output that is one well-formed object inside fence markers and
\* brace-free prose yields that object, and an output without "{" yields None.
C5_SingleObjectExtracted ==
    epc = "returned" =>
        /\ \A i \in 1..Len(response) : \A j \in i..Len(response) :
              ( /\ IsWrapping(SubSeq(response, 1, i - 1))
                /\ IsWrapping(SubSeq(response, j + 1, Len(response)))
                /\ IsObject(SubSeq(response, i, j)) )
              => tool_call = Some(ParseObject(SubSeq(response, i, j), 1).val)
        /\ (\A p \in 1..Len(response) : response[p] # "{") => tool_call = None

\* The extractor has returned {"tool": "none"} for an object between a json
\* fence and a closing fence.
C5_Witness ==
    /\ epc = "returned"
    /\ \E i \in 1..Len(response) : \E j \in i..Len(response) :
          /\ i > 1 /\ response[i - 1] = "fence:json"
          /\ j < Len(response) /\ response[j + 1] = "fence"
          /\ IsObject(SubSeq(response, i, j))
    /\ tool_call = Some([tool |-> "none"])

-----------------------------------------------------------------------------
(* split_text, vector_db.py *)

Chars == {"a", "b", " "}
Texts == SeqsUpTo(Chars, MaxTextLen)

\* A loop test that asks for a whole window: it leaves the last one out
LoopTest_SkipsLastWindow(s, t, size) == s + size < Len(t)

\* while start < len(text)
LoopTest(s, t, size) == s < Len(t)

\* end = min(start + chunk_size, len(text))
WindowEnd(s, size, t) == Min(s + size, Len(t))

\* A step with the sign of the overlap wrong
Advance_AddsOverlap(s, size, ov) == s + (size + ov)

\* start += chunk_size - overlap
Advance(s, size, ov) == s + (size - ov)

InitChunk ==
    /\ text \in Texts
    /\ chunk_size \in 1..MaxChunkSize
    /\ overlap \in 0..MaxChunkSize
    /\ start = 0
    /\ chunks = << >>
    /\ spans = << >>
    /\ iters = 0
    /\ cpc = "loop"
    /\ ExtractIdle
    /\ ClientIdle
    /\ StoreIdle

\* One run of the loop body, lines 23-27
SplitTextIterate ==
    /\ cpc = "loop"
    /\ LoopTest(start, text, chunk_size)
    /\ iters < MaxIters
    /\ LET end == WindowEnd(start, chunk_size, text)
           window == PySlice(text, start, end)
           chunk == Strip(window)
           lo == SliceIndex(start, Len(text)) + LeadingSpaces(window)
       IN  /\ chunks' = IF chunk # << >> THEN Append(chunks, chunk) ELSE chunks
           /\ spans' = IF chunk # << >>
                       THEN Append(spans, [lo |-> lo, hi |-> lo + Len(chunk)])
                       ELSE spans
    /\ start' = Advance(start, chunk_size, overlap)
    /\ iters' = iters + 1
    /\ UNCHANGED <<text, chunk_size, overlap, cpc>>
    /\ UNCHANGED <<extractVars, clientVars, storeVars>>

\* The loop test fails, line 28: return chunks
SplitTextReturn ==
    /\ cpc = "loop"
    /\ ~LoopTest(start, text, chunk_size)
    /\ cpc' = "returned"
    /\ UNCHANGED <<text, chunk_size, overlap, start, chunks, spans, iters>>
    /\ UNCHANGED <<extractVars, clientVars, storeVars>>

NextChunk == SplitTextIterate \/ SplitTextReturn

SpecChunk == InitChunk /\ [][NextChunk]_vars

-----------------------------------------------------------------------------
(* Properties of split_text *)

ValidChunking == 0 <= overlap /\ overlap < chunk_size

\* c is w without its leading and trailing whitespace
IsTrimOf(c, w) ==
    \E l \in 0..Len(w) :
        /\ l + Len(c) <= Len(w)
        /\ c = SubSeq(w, l + 1, l + Len(c))
        /\ \A p \in 1..l : IsSpace(w[p])
        /\ \A p \in (l + Len(c) + 1)..Len(w) : IsSpace(w[p])
        /\ c # << >> => ~IsSpace(c[1]) /\ ~IsSpace(c[Len(c)])

\* The i-th window of the text, i = 0, 1, ...
WindowAt(i) ==
    SubSeq(text, i * (chunk_size - overlap) + 1,
           Min(i * (chunk_size - overlap) + chunk_size, Len(text)))

\* The indices of the windows that start inside the text
WindowIndices == {i \in 0..Len(text) : i * (chunk_size - overlap) < Len(text)}

\* Those whose window holds a character that is not whitespace
KeptIndices == {i \in WindowIndices : \E p \in 1..Len(WindowAt(i)) : ~IsSpace(WindowAt(i)[p])}

\* The k-th smallest element of a set of integers
KthOf(S, k) == CHOOSE i \in S : Cardinality({j \in S : j <= i}) = k

\* C1: with overlap >= chunk_size, split_text runs no chunking step and
\* produces no chunk (it is to fail with a configuration error instead).
C1_GuardRejectsBeforeChunking ==
    overlap >= chunk_size => (iters = 0 /\ chunks = << >>)

\* C2: coverage.  With 0 < overlap < chunk_size, when split_text has
\* returned, every position of the text that holds a non-whitespace
\* character lies inside the range of a returned chunk, and the chunk is
\* the text of that range.
C2_Coverage ==
    (cpc = "returned" /\ 0 < overlap /\ overlap < chunk_size) =>
        /\ Len(spans) = Len(chunks)
        /\ \A p \in 1..Len(text) :
              ~IsSpace(text[p]) =>
                  \E i \in 1..Len(chunks) :
                      /\ spans[i].lo < p
                      /\ p <= spans[i].hi
                      /\ chunks[i] = SubSeq(text, spans[i].lo + 1, spans[i].hi)

\* A call with 0 < overlap < chunk_size has returned several chunks of a
\* text that holds whitespace and other characters.
C2_Witness ==
    /\ cpc = "returned"
    /\ 0 < overlap /\ overlap < chunk_size
    /\ Len(chunks) >= 2
    /\ \E p \in 1..Len(text) : IsSpace(text[p])
    /\ \E i \in 1..Len(chunks) : Len(chunks[i]) < chunk_size

\* C3: with 0 <= overlap < chunk_size the loop ends (it has run at most
\* Len(text) times, start is iters * (chunk_size - overlap), and a step is
\* always possible until the return), and the list returned is, in order,
\* the trimmed non-empty windows text[i*(S-O) : min(i*(S-O)+S, len)] for the
\* i with i*(S-O) < len: no chunk is empty or longer than chunk_size, and the
\* loop has run exactly once per such i.
C3_WindowsInOrder ==
    ValidChunking =>
        /\ start = iters * (chunk_size - overlap)
        /\ iters <= Len(text)
        /\ cpc = "loop" => ENABLED NextChunk
        /\ cpc = "returned" =>
              /\ iters = Cardinality(WindowIndices)
              /\ Len(chunks) = Cardinality(KeptIndices)
              /\ \A k \in 1..Len(chunks) :
                    /\ IsTrimOf(chunks[k], WindowAt(KthOf(KeptIndices, k)))
                    /\ chunks[k] # << >>
                    /\ Len(chunks[k]) <= chunk_size

\* A call with 0 <= overlap < chunk_size has returned after dropping a
\* window of whitespace and keeping at least two chunks.
C3_Witness ==
    /\ cpc = "returned"
    /\ ValidChunking
    /\ Len(chunks) >= 2
    /\ Len(chunks) < iters
    /\ \E k \in 1..Len(chunks) : Len(chunks[k]) < Len(WindowAt(KthOf(KeptIndices, k)))

-----------------------------------------------------------------------------
(* add_pdf_to_vectordb, vector_db.py *)

\* How many calls of add_pdf_to_vectordb a run makes
MaxIngests == 2

\* def split_text(text, chunk_size=1000, overlap=100), line 19
DefaultChunkSize == 1000
DefaultOverlap == 100

\* A PDF is the sequence of its pages; page.extract_text() is a string or None
Page(s) == [is_none |-> FALSE, text |-> s]
NoTextPage == [is_none |-> TRUE, text |-> << >>]

\* extract_text_from_pdf(pdf_path), lines 9-14, on the pages the reader finds
RECURSIVE extract_text_from_pdf(_)
extract_text_from_pdf(pages) ==
    IF pages = << >> THEN << >>
    ELSE (IF Head(pages).is_none THEN << >> ELSE Head(pages).text)
         \o extract_text_from_pdf(Tail(pages))

\* The loop of split_text, lines 22-27, from start s with the chunks acc
RECURSIVE split_text_from(_, _, _, _, _)
split_text_from(t, size, ov, s, acc) ==
    IF ~LoopTest(s, t, size) THEN acc
    ELSE LET chunk == Strip(PySlice(t, s, WindowEnd(s, size, t)))
         IN  split_text_from(t, size, ov, Advance(s, size, ov),
                             IF chunk # << >> THEN Append(acc, chunk) ELSE acc)

\* split_text(text, chunk_size, overlap), lines 19-28, as a function
split_text(t, size, ov) == split_text_from(t, size, ov, 0, << >>)

\* A path is a sequence of tokens: names, the separator "/" and the dot "."
\* os.path.basename(p)
basename(p) == PySlice(p, RFind(p, "/") + 1, Len(p))

\* The scan of os.path.splitext over the dots a file name starts with: k is
\* the 0-based filenameIndex, dot the index of the last dot
RECURSIVE SplitextScan(_, _, _)
SplitextScan(p, k, dot) ==
    IF k >= dot THEN p
    ELSE IF p[k + 1] # "." THEN PySlice(p, 0, dot)
    ELSE SplitextScan(p, k + 1, dot)

\* os.path.splitext(p)[0]
splitext_root(p) ==
    LET sep == RFind(p, "/")
        dot == RFind(p, ".")
    IN  IF dot > sep THEN SplitextScan(p, sep + 1, dot) ELSE p

\* str(i) of an integer i >= 0
Digit(d) ==
    CASE d = 0 -> "0" [] d = 1 -> "1" [] d = 2 -> "2" [] d = 3 -> "3" [] d = 4 -> "4"
      [] d = 5 -> "5" [] d = 6 -> "6" [] d = 7 -> "7" [] d = 8 -> "8" [] OTHER -> "9"

RECURSIVE str_int(_)
str_int(i) == IF i < 10 THEN <<Digit(i)>> ELSE str_int(i \div 10) \o <<Digit(i % 10)>>

\* f"{base_name}_chunk_{i}", line 59
chunk_id(base_name, i) == base_name \o <<"_chunk_">> \o str_int(i)

\* collection.add(documents=chunks, ids=ids), lines 62-65, on a collection
\* holding the entries store.  An id that is there already keeps one entry:
\* the new document replaces the old one (policy "overwrite") or the old one
\* stays ("keep"); which of the two is a property of the store.  Calls in which the reader or the
\* embedding raises leave the collection as it was and are not modelled.
RECURSIVE collection_add(_, _, _, _)
collection_add(store, documents, ids, policy) ==
    IF ids = << >> THEN store
    ELSE LET entry == [id |-> Head(ids), document |-> Head(documents)]
             at == {k \in 1..Len(store) : store[k].id = entry.id}
             next == IF at = {} THEN Append(store, entry)
                     ELSE IF policy = "overwrite"
                     THEN [k \in 1..Len(store) |-> IF k \in at THEN entry ELSE store[k]]
                     ELSE store
         IN  collection_add(next, Tail(documents), Tail(ids), policy)

\* An ingestion that numbers its chunks after the entries already stored
add_pdf_to_vectordb_NumbersAfterStore(store, path, pdf, policy) ==
    LET pdf_text == extract_text_from_pdf(pdf)
        chunked == split_text(pdf_text, DefaultChunkSize, DefaultOverlap)
        base_name == splitext_root(basename(path))
        ids == [i \in 1..Len(chunked) |-> chunk_id(base_name, Len(store) + i - 1)]
    IN  [ids |-> ids, chunks |-> chunked,
         store |-> collection_add(store, chunked, ids, policy)]

\* add_pdf_to_vectordb(pdf_path), lines 50-66: [ids, chunks, store]
add_pdf_to_vectordb(store, path, pdf, policy) ==
    LET pdf_text == extract_text_from_pdf(pdf)
        chunked == split_text(pdf_text, DefaultChunkSize, DefaultOverlap)
        base_name == splitext_root(basename(path))
        ids == [i \in 1..Len(chunked) |-> chunk_id(base_name, i - 1)]
    IN  [ids |-> ids, chunks |-> chunked,
         store |-> collection_add(store, chunked, ids, policy)]

\* The files ingested: doc.pdf, a/doc.pdf, b/doc.pdf, a/doc.PDF, a/notes.pdf,
\* a.d/doc and .doc
PdfPaths ==
    { <<"doc", ".", "pdf">>, <<"a", "/", "doc", ".", "pdf">>, <<"b", "/", "doc", ".", "pdf">>,
      <<"a", "/", "doc", ".", "PDF">>, <<"a", "/", "notes", ".", "pdf">>,
      <<"a", ".", "d", "/", "doc">>, <<".", "doc">> }

\* Their contents: 1900 characters on two pages around a page without text
\* (three chunks), a short page (one chunk), a page without text (no chunk)
Pdfs ==
    { <<Page([i \in 1..1000 |-> "a"]), NoTextPage, Page([i \in 1..900 |-> "b"])>>,
      <<Page(<<"b", "b", " ">>)>>,
      <<NoTextPage>> }

InitIngest ==
    /\ collection = << >>
    /\ collection_available = TRUE
    /\ on_existing \in {"overwrite", "keep"}
    /\ ingests = << >>
    /\ store_before = << >>
    /\ query_call = NoQuery
    /\ spc = "ready"
    /\ ChunkIdle
    /\ ExtractIdle
    /\ ClientIdle

\* One call of add_pdf_to_vectordb
AddPdf ==
    /\ spc = "ready"
    /\ Len(ingests) < MaxIngests
    /\ \E path \in PdfPaths, pdf \in Pdfs :
          LET added == add_pdf_to_vectordb(collection, path, pdf, on_existing)
          IN  /\ collection' = added.store
              /\ store_before' = collection
              /\ ingests' = Append(ingests, [path |-> path, pdf |-> pdf, ids |-> added.ids])
    /\ UNCHANGED <<collection_available, on_existing, query_call, spc>>
    /\ UNCHANGED <<chunkVars, extractVars, clientVars>>

NextIngest == AddPdf

SpecIngest == InitIngest /\ [][NextIngest]_vars

-----------------------------------------------------------------------------
(* Properties of add_pdf_to_vectordb *)

\* The elements of a sequence
Range(s) == {s[i] : i \in 1..Len(s)}

\* C12: the ids generated for two distinct source paths never coincide.
C12_IdsDisjointAcrossSources ==
    \A i, j \in 1..Len(ingests) :
        ingests[i].path # ingests[j].path =>
            Range(ingests[i].ids) \cap Range(ingests[j].ids) = {}

\* The last two calls ingested the same path with the same content
ReingestedUnchanged ==
    /\ Len(ingests) >= 2
    /\ ingests[Len(ingests)].path = ingests[Len(ingests) - 1].path
    /\ ingests[Len(ingests)].pdf = ingests[Len(ingests) - 1].pdf

\* C13: ingesting the same path with the same content a second time
\* generates the ids of the first time and leaves the collection with the
\* entries it had, one entry per id.
C13_ReingestionIsIdempotent ==
    ReingestedUnchanged =>
        /\ ingests[Len(ingests)].ids = ingests[Len(ingests) - 1].ids
        /\ collection = store_before
        /\ \A k, l \in 1..Len(collection) : collection[k].id = collection[l].id => k = l

\* The same path was ingested twice with content of three chunks
C13_Witness ==
    /\ ReingestedUnchanged
    /\ Len(ingests[Len(ingests)].ids) = 3
    /\ Len(collection) = 3
    /\ \A k \in 1..3 : collection[k].id = ingests[1].ids[k]

-----------------------------------------------------------------------------
(* The tool backend, main.py *)

\* The tools registered with @mcp.tool()
Catalog == {"get_latest_news", "get_college_notifications", "query_knowledge_base"}

\* What the backend's collaborators do during one call: the vector store is
\* "unavailable", "query_raises" or "ok"; the scraper is "ok" or "raises"
StoreStates == {"unavailable", "query_raises", "ok"}
ScraperStates == {"ok", "raises"}

\* query_knowledge_base as it would be with a default for query_text
\* (query_text: str = ""): a call without the argument runs the body
query_knowledge_base_DefaultQueryText(args, store) ==
    IF store = "unavailable"
    THEN [failure |-> "store_unavailable", payload |-> "error_json", store_queried |-> FALSE]
    ELSE IF store = "query_raises"
    THEN [failure |-> "backend_error", payload |-> "error_json", store_queried |-> TRUE]
    ELSE [failure |-> "none", payload |-> "documents_json", store_queried |-> TRUE]

\* query_knowledge_base(query_text, n_results=3), lines 27-43, called with the
\* arguments args.  query_text has no default: a call without it is rejected
\* before the body runs.  [failure, payload, store_queried], the payload by
\* its kind only; the text returned is that of query_knowledge_base_body
query_knowledge_base(args, store) ==
    IF "query_text" \notin DOMAIN args
    THEN [failure |-> "missing_argument", payload |-> "", store_queried |-> FALSE]
    ELSE IF store = "unavailable"
    THEN [failure |-> "store_unavailable", payload |-> "error_json", store_queried |-> FALSE]
    ELSE IF store = "query_raises"
    THEN [failure |-> "backend_error", payload |-> "error_json", store_queried |-> TRUE]
    ELSE [failure |-> "none", payload |-> "documents_json", store_queried |-> TRUE]

\* get_latest_news() and get_college_notifications(), lines 9-24: what the
\* scraper returns, or its exception
scraping_tool(name, scraper) ==
    IF scraper = "raises"
    THEN [failure |-> "backend_error", payload |-> "", store_queried |-> FALSE]
    ELSE [failure |-> "none", payload |-> name, store_queried |-> FALSE]

\* The backend's handling of a tools/call request
BackendCall(name, args, env) ==
    IF name \notin Catalog
    THEN [failure |-> "unknown_tool", payload |-> "", store_queried |-> FALSE]
    ELSE IF name = "query_knowledge_base" THEN query_knowledge_base(args, env.store)
    ELSE scraping_tool(name, env.scraper)

-----------------------------------------------------------------------------
(* The body of query_knowledge_base, main.py, and what it returns *)

\* How many entries the collection queried holds, and the largest n_results
MaxStored == 3
MaxResults == 4

\* JSON text is a sequence of tokens: the brackets, braces and commas, a
\* string, a key with its colon, and the line break and indentation that
\* indent=2 puts before every item and before the closing bracket
JsonToken(kind, value) == [kind |-> kind, value |-> value]
JsonString(s) == JsonToken("string", s)
JsonKey(s) == JsonToken("key", s)
JsonPunct(c) == JsonToken(c, "")

\* The items of json.dumps(list, indent=2), each on a line of its own
RECURSIVE DumpItems(_)
DumpItems(items) ==
    IF items = << >> THEN << >>
    ELSE <<JsonPunct("indent"), JsonString(Head(items))>>
         \o (IF Len(items) > 1 THEN <<JsonPunct(",")>> ELSE << >>)
         \o DumpItems(Tail(items))

\* json.dumps(list of strings, indent=2), line 41
json_dumps_list(items) ==
    IF items = << >> THEN <<JsonPunct("["), JsonPunct("]")>>
    ELSE <<JsonPunct("[")>> \o DumpItems(items) \o <<JsonPunct("indent"), JsonPunct("]")>>

\* json.dumps({"error": message}), lines 33 and 43
json_dumps_error(message) ==
    <<JsonPunct("{"), JsonKey("error"), JsonString(message), JsonPunct("}")>>

\* collection.query(query_texts=[query_text], n_results=n), lines 36-39, when
\* it returns: for each query text the documents of the n nearest entries,
\* nearest first, fewer when the collection holds fewer.  nearest is the
\* order the store ranks the entries of the collection in
collection_query(store, query_texts, n, nearest) ==
    [documents |->
        [q \in 1..Len(query_texts) |->
            [k \in 1..Min(n, Len(store)) |-> store[nearest[k]].document]]]

\* The orders a store of size entries can rank them in
Rankings(size) ==
    {r \in [1..size -> 1..size] : \A i, j \in 1..size : r[i] = r[j] => i = j}

\* query_knowledge_base without its try: what collection.query raises
\* leaves the tool
query_knowledge_base_body_NoTry(query_text, n_results, available, store, env) ==
    IF ~available
    THEN [raised |-> FALSE, store_queried |-> FALSE,
          returned |-> json_dumps_error("Cannot query. ChromaDB collection is not available.")]
    ELSE IF env.query = "raises"
    THEN [raised |-> TRUE, store_queried |-> TRUE, returned |-> << >>]
    ELSE LET results == collection_query(store, <<query_text>>, n_results, env.nearest)
         IN  [raised |-> FALSE, store_queried |-> TRUE,
              returned |-> json_dumps_list(results.documents[1])]

\* The body of query_knowledge_base, lines 32-43, with both arguments bound:
\* [raised, store_queried, returned].  available is the truth value of
\* collection at line 32; env.query says whether collection.query returns or
\* raises, env.nearest is the ranking it uses
query_knowledge_base_body(query_text, n_results, available, store, env) ==
    IF ~available
    THEN [raised |-> FALSE, store_queried |-> FALSE,
          returned |-> json_dumps_error("Cannot query. ChromaDB collection is not available.")]
    ELSE IF env.query = "raises"
    THEN [raised |-> FALSE, store_queried |-> TRUE,
          returned |-> json_dumps_error("An error occurred during the query")]
    ELSE LET results == collection_query(store, <<query_text>>, n_results, env.nearest)
         IN  [raised |-> FALSE, store_queried |-> TRUE,
              returned |-> json_dumps_list(results.documents[1])]

\* The chunk texts a queried collection holds
QueryDocuments == {"x", "y"}

\* A collection of these documents, ingested as doc.pdf
StoredAs(documents) ==
    [k \in 1..Len(documents) |-> [id |-> chunk_id(<<"doc">>, k - 1), document |-> documents[k]]]

InitQuery ==
    /\ collection \in {StoredAs(d) : d \in SeqsUpTo(QueryDocuments, MaxStored)}
    /\ collection_available \in BOOLEAN
    /\ on_existing = "keep"
    /\ ingests = << >>
    /\ store_before = << >>
    /\ query_call = NoQuery
    /\ spc = "ready"
    /\ ChunkIdle
    /\ ExtractIdle
    /\ ClientIdle

\* One call of the tool query_knowledge_base with a query_text
QueryKnowledgeBase ==
    /\ spc = "ready"
    /\ \E query_text \in {"q", ""}, n_results \in 1..MaxResults,
          query \in {"returns", "raises"}, nearest \in Rankings(Len(collection)) :
          LET env == [query |-> query, nearest |-> nearest]
              out == query_knowledge_base_body(query_text, n_results, collection_available,
                                               collection, env)
          IN  query_call' = [ran |-> TRUE, query_text |-> query_text, n_results |-> n_results,
                             query_raised |-> out.store_queried /\ query = "raises",
                             raised |-> out.raised, returned |-> out.returned,
                             store_queried |-> out.store_queried]
    /\ UNCHANGED <<collection, collection_available, on_existing, ingests, store_before, spc>>
    /\ UNCHANGED <<chunkVars, extractVars, clientVars>>

NextQuery == QueryKnowledgeBase

SpecQuery == InitQuery /\ [][NextQuery]_vars

-----------------------------------------------------------------------------
(* Properties of query_knowledge_base *)

\* The strings of a JSON text
JsonStringsOf(s) == SelectSeq(s, LAMBDA tok : tok.kind = "string")

\* s is a JSON array of strings
IsJsonArrayOfStrings(s) ==
    /\ Len(s) >= 2
    /\ s[1] = JsonPunct("[")
    /\ s[Len(s)] = JsonPunct("]")
    /\ \A i \in 2..(Len(s) - 1) :
          /\ s[i].kind \in {"string", ",", "indent"}
          /\ s[i].kind = "," => s[i - 1].kind = "string"
          /\ s[i].kind = "string" =>
                \/ s[i + 1].kind = ","
                \/ \A j \in (i + 1)..(Len(s) - 1) : s[j].kind = "indent"

\* s is an object with the one member "error": a message
IsJsonErrorObject(s) ==
    /\ Len(s) = 4
    /\ s[1] = JsonPunct("{")
    /\ s[2] = JsonKey("error")
    /\ s[3].kind = "string"
    /\ s[4] = JsonPunct("}")

\* C14: a call of query_knowledge_base with a query text does not raise; it
\* returns either a JSON array of at most n_results texts of the collection
\* or an object {"error": message}, never both; the error object when the
\* collection is not available or its query raised, the empty array when
\* the query of an empty collection returned.
C14_QueryReturnsArrayOrErrorObject ==
    query_call.ran =>
        /\ ~query_call.raised
        /\ IsJsonArrayOfStrings(query_call.returned) # IsJsonErrorObject(query_call.returned)
        /\ IsJsonArrayOfStrings(query_call.returned) =>
              /\ Len(JsonStringsOf(query_call.returned)) <= query_call.n_results
              /\ \A i \in 1..Len(JsonStringsOf(query_call.returned)) :
                    \E k \in 1..Len(collection) :
                        collection[k].document = JsonStringsOf(query_call.returned)[i].value
        /\ ~collection_available =>
              IsJsonErrorObject(query_call.returned) /\ ~query_call.store_queried
        /\ query_call.query_raised => IsJsonErrorObject(query_call.returned)
        /\ (collection_available /\ ~query_call.query_raised /\ collection = << >>) =>
              query_call.returned = <<JsonPunct("["), JsonPunct("]")>>

\* A query for three results of a collection of two entries returned the
\* array of both texts
C14_Witness ==
    /\ query_call.ran
    /\ query_call.n_results = 3
    /\ Len(collection) = 2
    /\ IsJsonArrayOfStrings(query_call.returned)
    /\ Len(JsonStringsOf(query_call.returned)) = 2

-----------------------------------------------------------------------------
(* MCPClient, client.py *)

\* One thing a turn did.  op is "generate_decision", "dispatch" (a call of
\* process_tool_call), "call_tool" (the request sent to the backend),
\* "store_query" (the backend queried the vector store), "result" (the text
\* process_tool_call returned from the backend's answer), "synthesize" (a
\* call of make_natural_response), "generate_chat" (the conversational
\* branch) or "print"
Event(op, tool, args, data) == [op |-> op, tool |-> tool, args |-> args, data |-> data]

\* What the environment does during one turn.
\*   decide:    the decision call of ollama.generate returns, raises or is interrupted
\*   response:  the text it returns
\*   transport: session.call_tool gets an answer, raises or is interrupted
\*   fail_mode: a call the backend fails without a payload reaches the client
\*              as an exception of call_tool ("raise") or, the way the
\*              protocol reports the error of a tool, as a result whose text
\*              is the error message ("error_result"); process_tool_call
\*              reads content[0].text of whatever result it gets
\*   store, scraper: see the backend
\*   answer:    the second call of ollama.generate (synthesis or chat)
ClientResponses ==
    { <<"{", "tool:none", "}">>,
      <<"{", "tool:get_latest_news", ",", "arguments:", "{", "}", "}">>,
      <<"{", "tool:get_college_notifications", ",", "arguments:", "{", "}", "}">>,
      <<"{", "tool:query_knowledge_base", ",", "arguments:", "{", "query_text:q", "}", "}">>,
      <<"{", "tool:query_knowledge_base", ",", "arguments:", "{", "}", "}">>,
      <<"{", "tool:query_knowledge_base", "}">>,
      <<"{", "tool:make_coffee", "}">>,
      <<"{", "other:1", "}">>,
      <<"{", "arguments:", "{", "}", "}">>,
      <<"{", "}">>,
      <<"prose">>,
      <<"{", "tool:get_latest_news">>,
      <<"prose", "fence:json", "\n", "{", "tool:get_latest_news", ",", "arguments:", "{", "}", "}",
        "\n", "fence", "prose">>,
      <<"{", "tool:get_latest_news", ",", "arguments:", "{", "}", "}", "prose",
        "{", "tool:none", "}">> }

Environments ==
    [decide : {"ok", "error", "interrupt"},
     response : ClientResponses,
     transport : {"ok", "error", "interrupt"},
     fail_mode : {"raise", "error_result"},
     store : StoreStates,
     scraper : ScraperStates,
     answer : {"ok", "error", "interrupt"}]

\* process_tool_call without the test of self.session
process_tool_call_NoSessionTest(sess, tool_name, tool_args, env) ==
    LET sent == <<Event("call_tool", tool_name, DOMAIN tool_args, "")>>
        reply == BackendCall(tool_name, tool_args, env)
    IN  IF env.transport = "interrupt"
        THEN [outcome |-> "interrupted", data |-> "", failure |-> "none", events |-> sent]
        ELSE IF env.transport = "error" \/ sess = "None"
        THEN [outcome |-> "raised", data |-> "", failure |-> "backend_error", events |-> sent]
        ELSE IF reply.payload # ""
        THEN [outcome |-> "returned", data |-> reply.payload, failure |-> reply.failure,
              events |-> sent \o <<Event("result", tool_name, {}, reply.payload)>>]
        ELSE [outcome |-> "raised", data |-> "", failure |-> reply.failure, events |-> sent]

\* process_tool_call(tool_name, tool_args), lines 39-45:
\* [outcome, data, failure, events], outcome being "returned", "raised" (an
\* Exception) or "interrupted"
process_tool_call(sess, tool_name, tool_args, env) ==
    LET sent == <<Event("call_tool", tool_name, DOMAIN tool_args, "")>>
        reply == BackendCall(tool_name, tool_args, env)
        done == IF reply.store_queried
                THEN sent \o <<Event("store_query", tool_name, DOMAIN tool_args, "")>>
                ELSE sent
    IN  IF sess = "None"
        THEN [outcome |-> "raised", data |-> "", failure |-> "not_connected", events |-> << >>]
        ELSE IF env.transport = "interrupt"
        THEN [outcome |-> "interrupted", data |-> "", failure |-> "none", events |-> sent]
        ELSE IF env.transport = "error"
        THEN [outcome |-> "raised", data |-> "", failure |-> "backend_error", events |-> sent]
        ELSE IF reply.payload # ""
        THEN [outcome |-> "returned", data |-> reply.payload, failure |-> reply.failure,
              events |-> done \o <<Event("result", tool_name, {}, reply.payload)>>]
        ELSE IF env.fail_mode = "raise"
        THEN [outcome |-> "raised", data |-> "", failure |-> reply.failure, events |-> done]
        ELSE [outcome |-> "returned", data |-> "error_text", failure |-> reply.failure,
              events |-> done \o <<Event("result", tool_name, {}, "error_text")>>]

\* The record of a turn; its response is filled in by chat_with_mistral
Turn(classified, events, failure, exception) ==
    [ran |-> TRUE, response |-> << >>, classified |-> classified, events |-> events,
     failure |-> failure, raised |-> exception]

Printed(what) == Event("print", "", {}, what)

\* A tool branch that sends the call a second time before it goes on
ToolBranch_DispatchesTwice(sess, before, tool_name, tool_args, env) ==
    LET called == process_tool_call(sess, tool_name, tool_args, env)
        dispatched == before \o <<Event("dispatch", tool_name, DOMAIN tool_args, "")>>
                             \o called.events
                             \o <<Event("dispatch", tool_name, DOMAIN tool_args, "")>>
                             \o called.events
        synthesized == dispatched \o <<Event("synthesize", "", {}, called.data)>>
    IN  IF called.outcome = "interrupted"
        THEN Turn("tool", dispatched, called.failure, "KeyboardInterrupt")
        ELSE IF called.outcome = "raised"
        THEN Turn("tool", dispatched \o <<Printed("apology")>>, called.failure, "none")
        ELSE IF env.answer = "interrupt"
        THEN Turn("tool", synthesized, called.failure, "KeyboardInterrupt")
        ELSE IF env.answer = "error"
        THEN Turn("tool", synthesized \o <<Printed("apology")>>, called.failure, "none")
        ELSE Turn("tool", synthesized \o <<Printed("answer")>>, called.failure, "none")

\* The tool branch of chat_with_mistral, lines 137-151
ToolBranch(sess, before, tool_name, tool_args, env) ==
    LET called == process_tool_call(sess, tool_name, tool_args, env)
        dispatched == before \o <<Event("dispatch", tool_name, DOMAIN tool_args, "")>>
                             \o called.events
        synthesized == dispatched \o <<Event("synthesize", "", {}, called.data)>>
    IN  IF called.outcome = "interrupted"
        THEN Turn("tool", dispatched, called.failure, "KeyboardInterrupt")
        ELSE IF called.outcome = "raised"
        THEN Turn("tool", dispatched \o <<Printed("apology")>>, called.failure, "none")
        ELSE IF env.answer = "interrupt"
        THEN Turn("tool", synthesized, called.failure, "KeyboardInterrupt")
        ELSE IF env.answer = "error"
        THEN Turn("tool", synthesized \o <<Printed("apology")>>, called.failure, "none")
        ELSE Turn("tool", synthesized \o <<Printed("answer")>>, called.failure, "none")

\* The conversational branch of chat_with_mistral, lines 152-168
ChatBranch(before, env) ==
    LET generated == before \o <<Event("generate_chat", "", {}, "")>>
    IN  IF env.answer = "interrupt" THEN Turn("none", generated, "none", "KeyboardInterrupt")
        ELSE IF env.answer = "error" THEN Turn("none", generated, "none", "GenerateError")
        ELSE Turn("none", generated \o <<Printed("chat")>>, "none", "none")

\* if tool_call and tool_call.get('tool') != 'none', line 136
TakesToolBranch(call) ==
    /\ ~call.is_none
    /\ call.dict # EmptyDict
    /\ ("tool" \in DOMAIN call.dict => call.dict.tool # "none")

\* tool_call.get('arguments', {}), line 138
ArgumentsOf(d) == IF "arguments" \in DOMAIN d THEN d.arguments ELSE EmptyDict

\* chat_with_mistral(user_message), lines 98-168, on a client whose session
\* is sess
chat_with_mistral(sess, env) ==
    LET asked == <<Event("generate_decision", "", {}, "")>>
        call == extract_tool_call(env.response)
        done == IF TakesToolBranch(call)
                THEN IF "tool" \notin DOMAIN call.dict
                     THEN Turn("raised", asked, "none", "KeyError")
                     ELSE ToolBranch(sess, asked, call.dict.tool, ArgumentsOf(call.dict), env)
                ELSE ChatBranch(asked, env)
    IN  IF env.decide = "interrupt" THEN Turn("none", asked, "none", "KeyboardInterrupt")
        ELSE IF env.decide = "error" THEN Turn("none", asked, "none", "GenerateError")
        ELSE [done EXCEPT !.response = env.response]

\* What connect_to_server can do, lines 17-37: it passes, or one of its
\* awaits raises
ConnectOutcomes ==
    {"ok", "transport_enter_raises", "session_enter_raises", "initialize_raises",
     "list_tools_raises"}

\* MCPClient() and main up to line 204
InitClient ==
    /\ pc = "init"
    /\ session = "None"
    /\ available_tools = {}
    /\ client_context = "None"
    /\ session_context = "None"
    /\ transport_res = "none"
    /\ session_res = "none"
    /\ user_input = << >>
    /\ turn = NoTurn
    /\ loop_end = "none"
    /\ raised = "none"
    /\ close_called = FALSE
    /\ exit_calls = << >>
    /\ direct_call = NoDirectCall
    /\ last_line = << >>
    /\ ChunkIdle
    /\ ExtractIdle
    /\ StoreIdle

\* await client.connect_to_server("main.py"), line 204, which is before the
\* try of main: an exception of it ends main without the finally clause
Connect ==
    /\ pc = "init"
    /\ \E outcome \in ConnectOutcomes :
          /\ client_context' = "set"
          /\ transport_res' = IF outcome = "transport_enter_raises" THEN "none" ELSE "entered"
          /\ session_context' = IF outcome = "transport_enter_raises" THEN "None" ELSE "set"
          /\ session_res' = IF outcome \in {"transport_enter_raises", "session_enter_raises"}
                            THEN "none" ELSE "entered"
          /\ session' = IF outcome \in {"transport_enter_raises", "session_enter_raises"}
                        THEN "None" ELSE "set"
          /\ available_tools' = IF outcome = "ok" THEN Catalog ELSE {}
          /\ pc' = IF outcome = "ok" THEN "input" ELSE "exited"
          /\ raised' = IF outcome = "ok" THEN "none" ELSE "ConnectError"
    /\ UNCHANGED <<user_input, turn, loop_end, close_called, exit_calls, direct_call,
                   last_line>>
    /\ UNCHANGED <<chunkVars, extractVars, storeVars>>

\* str.lower() of one character
Lower(c) ==
    CASE c = "Q" -> "q" [] c = "U" -> "u" [] c = "I" -> "i" [] c = "T" -> "t"
      [] c = "B" -> "b" [] c = "Y" -> "y" [] c = "E" -> "e" [] c = "H" -> "h"
      [] OTHER -> c

LowerAll(s) == [i \in 1..Len(s) |-> Lower(s[i])]

\* ['quit', 'exit', 'bye', 'goodbye'], line 214
Sentinels ==
    { <<"q", "u", "i", "t">>, <<"e", "x", "i", "t">>, <<"b", "y", "e">>,
      <<"g", "o", "o", "d", "b", "y", "e">> }

\* A test of the exit commands that leaves out lower()
IsExitCommand_CaseSensitive(s) == s \in Sentinels

\* user_input.lower() in ['quit', 'exit', 'bye', 'goodbye'], line 214
IsExitCommand(s) == LowerAll(s) \in Sentinels

\* The lines the user types
InputLines ==
    { <<"q", "u", "i", "t">>, <<" ", "E", "x", "i", "t", " ">>, <<"B", "Y", "E">>,
      <<"g", "o", "o", "d", "b", "y", "e", "\n">>,
      << >>, <<" ", " ">>,
      <<"h", "i">>, <<" ", "H", "i", " ">>, <<"q", "u", "i", "t", " ", "i", "t">> }

\* One pass of the loop up to the call of chat_with_mistral, lines 212-221
ReadInput ==
    /\ pc = "input"
    /\ \E line \in InputLines :
          /\ last_line' = line
          /\ user_input' = Strip(line)
          /\ IF IsExitCommand(Strip(line))
             THEN pc' = "finally" /\ loop_end' = "sentinel"
             ELSE IF Strip(line) = << >>
             THEN pc' = "input" /\ loop_end' = loop_end
             ELSE pc' = "turn" /\ loop_end' = loop_end
    /\ UNCHANGED <<session, available_tools, client_context, session_context,
                   transport_res, session_res, turn, raised, close_called, exit_calls,
                   direct_call>>
    /\ UNCHANGED <<chunkVars, extractVars, storeVars>>

\* KeyboardInterrupt while input() waits, lines 212 and 225-226
InterruptInput ==
    /\ pc = "input"
    /\ pc' = "finally"
    /\ loop_end' = "interrupt"
    /\ UNCHANGED <<session, available_tools, client_context, session_context,
                   transport_res, session_res, user_input, turn, raised, close_called,
                   exit_calls, direct_call, last_line>>
    /\ UNCHANGED <<chunkVars, extractVars, storeVars>>

\* await client.chat_with_mistral(user_input), line 222, and where main goes
\* with what it raises: on to the next input, to except KeyboardInterrupt,
\* or out through finally
Chat ==
    /\ pc = "turn"
    /\ \E env \in Environments :
          LET done == chat_with_mistral(session, env)
          IN  /\ turn' = done
              /\ pc' = IF done.raised = "none" THEN "input" ELSE "finally"
              /\ loop_end' = IF done.raised = "none" THEN loop_end
                             ELSE IF done.raised = "KeyboardInterrupt" THEN "interrupt"
                             ELSE "exception"
              /\ raised' = IF done.raised \in {"none", "KeyboardInterrupt"} THEN raised
                           ELSE done.raised
    /\ UNCHANGED <<session, available_tools, client_context, session_context,
                   transport_res, session_res, user_input, close_called, exit_calls,
                   direct_call, last_line>>
    /\ UNCHANGED <<chunkVars, extractVars, storeVars>>

\* close(), lines 187-192, on a client with these two fields.  Each __aexit__
\* returns or raises; one that raises ends close() there.
\* [calls, session_released, transport_released, raised]
close(sess_context, cli_context, session_exit, transport_exit) ==
    LET exits_session == sess_context # "None"
        session_raised == exits_session /\ session_exit = "raises"
        exits_transport == ~session_raised /\ cli_context # "None"
        transport_raised == exits_transport /\ transport_exit = "raises"
    IN  [calls |-> (IF exits_session THEN <<"session">> ELSE << >>)
                   \o (IF exits_transport THEN <<"transport">> ELSE << >>),
         session_released |-> exits_session /\ ~session_raised,
         transport_released |-> exits_transport /\ ~transport_raised,
         raised |-> session_raised \/ transport_raised]

\* finally: await client.close(), lines 227-228
Close ==
    /\ pc = "finally"
    /\ \E session_exit \in {"ok", "raises"}, transport_exit \in {"ok", "raises"} :
          LET closed == close(session_context, client_context, session_exit, transport_exit)
          IN  /\ session_res' = IF closed.session_released /\ session_res = "entered"
                                THEN "released" ELSE session_res
              /\ transport_res' = IF closed.transport_released /\ transport_res = "entered"
                                  THEN "released" ELSE transport_res
              /\ raised' = IF closed.raised THEN "CloseError" ELSE raised
              /\ exit_calls' = exit_calls \o closed.calls
    /\ close_called' = TRUE
    /\ pc' = "exited"
    /\ UNCHANGED <<session, available_tools, client_context, session_context,
                   user_input, turn, loop_end, direct_call, last_line>>
    /\ UNCHANGED <<chunkVars, extractVars, storeVars>>

Next == Connect \/ ReadInput \/ InterruptInput \/ Chat \/ Close

Spec == InitClient /\ [][Next]_vars

\* The environments of a call of process_tool_call by itself
DirectEnvironments ==
    {env \in Environments :
        env.decide = "ok" /\ env.answer = "ok" /\ env.response = <<"prose">>}

\* A call of process_tool_call on the client from outside main, before
\* main connects it or after main has ended
DirectToolCall ==
    /\ pc \in {"init", "exited"}
    /\ \E tool_name \in {"get_latest_news", "query_knowledge_base"},
          env \in DirectEnvironments :
          LET called == process_tool_call(session, tool_name, EmptyDict, env)
          IN  direct_call' = [ran |-> TRUE, session |-> session, outcome |-> called.outcome,
                              failure |-> called.failure, events |-> called.events]
    /\ pc' = "called"
    /\ UNCHANGED <<session, available_tools, client_context, session_context,
                   transport_res, session_res, user_input, turn, loop_end, raised,
                   close_called, exit_calls, last_line>>
    /\ UNCHANGED <<chunkVars, extractVars, storeVars>>

\* A call of close() on the client from outside main, before main connects
\* it or after main has ended
DirectClose ==
    /\ pc \in {"init", "exited"}
    /\ \E session_exit \in {"ok", "raises"}, transport_exit \in {"ok", "raises"} :
          LET closed == close(session_context, client_context, session_exit, transport_exit)
          IN  /\ session_res' = IF closed.session_released /\ session_res = "entered"
                                THEN "released" ELSE session_res
              /\ transport_res' = IF closed.transport_released /\ transport_res = "entered"
                                  THEN "released" ELSE transport_res
              /\ raised' = IF closed.raised THEN "CloseError" ELSE raised
              /\ exit_calls' = exit_calls \o closed.calls
    /\ close_called' = TRUE
    /\ pc' = "called"
    /\ UNCHANGED <<session, available_tools, client_context, session_context,
                   user_input, turn, loop_end, direct_call, last_line>>
    /\ UNCHANGED <<chunkVars, extractVars, storeVars>>

\* main, and the methods of the client called from outside it
NextClient == Next \/ DirectToolCall \/ DirectClose

SpecClient == InitClient /\ [][NextClient]_vars

-----------------------------------------------------------------------------
(* Properties of the client *)

\* The events of the last turn with this op
EventsOf(op) == SelectSeq(turn.events, LAMBDA e : e.op = op)

\* The tool execution of the last turn failed: a backend error, a missing
\* required argument, or a tool the backend does not have
ToolExecutionFailed == turn.failure \in {"backend_error", "missing_argument", "unknown_tool"}

\* C6: every tool call that reaches the dispatcher (process_tool_call) names
\* a tool of the catalog obtained at connect.
C6_DispatchedToolsAreInCatalog ==
    \A i \in 1..Len(turn.events) :
        turn.events[i].op = "dispatch" => turn.events[i].tool \in available_tools

\* C7: classification never raises: whatever text the model returned, the
\* turn classifies it as a tool call or as none, and no KeyError leaves
\* chat_with_mistral.
C7_ClassificationNeverRaises ==
    turn.ran => (turn.classified \in {"tool", "none"} /\ turn.raised # "KeyError")

\* C8: when the tool execution of a turn failed (and the turn was not
\* interrupted), the turn ended with the apology and the synthesizer was not
\* called with the failure.
C8_ToolFailureIsApologised ==
    (ToolExecutionFailed /\ turn.raised = "none") =>
        /\ EventsOf("synthesize") = << >>
        /\ turn.events[Len(turn.events)] = Printed("apology")

\* C9: the loop of main is left only by an exit command or an interrupt.
C9_LoopEndsOnlyByExitOrInterrupt ==
    loop_end \in {"none", "sentinel", "interrupt"}

\* C10: when main has ended after connect entered the transport context,
\* close() has run and neither context is left entered.
C10_ReleasedOnEveryExit ==
    (pc = "exited" /\ transport_res # "none") =>
        /\ close_called
        /\ transport_res = "released"
        /\ session_res # "entered"

\* The last turn dispatched query_knowledge_base without query_text
DispatchedWithoutQueryText ==
    \E i \in 1..Len(turn.events) :
        /\ turn.events[i].op = "dispatch"
        /\ turn.events[i].tool = "query_knowledge_base"
        /\ "query_text" \notin turn.events[i].args

\* C11: a call of query_knowledge_base without query_text never reaches the
\* vector store's query; the call that got to the backend is rejected for the
\* missing argument, nothing is synthesized from it, and the turn ends
\* without an exception of its own (an interrupt apart).
C11_MissingQueryTextRejectedBeforeStore ==
    DispatchedWithoutQueryText =>
        /\ EventsOf("store_query") = << >>
        /\ turn.raised \in {"none", "KeyboardInterrupt"}
        /\ \A i \in 1..Len(turn.events) :
              turn.events[i].op = "synthesize" => turn.events[i].data = "error_text"
        /\ (EventsOf("call_tool") # << >> /\ turn.raised = "none") =>
              turn.failure \in {"missing_argument", "backend_error"}

\* A turn dispatched query_knowledge_base with arguments {}, the backend
\* rejected it for the missing argument, and the turn ended normally
C11_Witness ==
    /\ DispatchedWithoutQueryText
    /\ EventsOf("call_tool") # << >>
    /\ turn.failure = "missing_argument"
    /\ turn.raised = "none"
    /\ pc = "input"

\* The model's output of the last turn names a tool other than "none"
YieldsTool ==
    /\ turn.response # << >>
    /\ ~extract_tool_call(turn.response).is_none
    /\ "tool" \in DOMAIN extract_tool_call(turn.response).dict
    /\ extract_tool_call(turn.response).dict.tool # "none"

\* C15: a turn dispatches one tool call when the model's output names a
\* tool other than "none" and none otherwise; it sends at most one request
\* to the backend; and it calls the synthesizer at most once, only right
\* after process_tool_call returned, with the text it returned.
C15_OneDispatchThenSynthesis ==
    turn.ran =>
        /\ Len(EventsOf("dispatch")) = IF YieldsTool THEN 1 ELSE 0
        /\ Len(EventsOf("call_tool")) <= Len(EventsOf("dispatch"))
        /\ Len(EventsOf("synthesize")) <= 1
        /\ \A i \in 1..Len(turn.events) :
              turn.events[i].op = "synthesize" =>
                  /\ i > 1
                  /\ turn.events[i - 1].op = "result"
                  /\ turn.events[i - 1].data = turn.events[i].data
                  /\ \E d \in 1..(i - 1) :
                        /\ turn.events[d].op = "dispatch"
                        /\ turn.events[d].tool = turn.events[i - 1].tool
        /\ \A i \in 1..Len(turn.events) :
              turn.events[i].op = "call_tool" =>
                  /\ i > 1
                  /\ turn.events[i - 1].op = "dispatch"
                  /\ turn.events[i - 1].tool = turn.events[i].tool
                  /\ turn.events[i - 1].args = turn.events[i].args

\* A turn dispatched a tool, got its payload and synthesized the answer
C15_Witness ==
    /\ turn.ran
    /\ YieldsTool
    /\ Len(EventsOf("dispatch")) = 1
    /\ Len(EventsOf("synthesize")) = 1
    /\ EventsOf("synthesize")[1].data = "documents_json"
    /\ turn.events[Len(turn.events)] = Printed("answer")

\* connect_to_server has run to its end: the session is initialized and the
\* tools are listed
ConnectCompleted ==
    /\ session = "set"
    /\ session_res # "none"
    /\ available_tools = Catalog

ExitCount(context) == Len(SelectSeq(exit_calls, LAMBDA c : c = context))

\* C17: close() exits the contexts that were entered and no others, the
\* session context before the transport context, each at most once; once
\* close() has been called every context that was entered has been exited.
C17_CloseExitsWhatWasEntered ==
    /\ ExitCount("session") <= (IF session_res # "none" THEN 1 ELSE 0)
    /\ ExitCount("transport") <= (IF transport_res # "none" THEN 1 ELSE 0)
    /\ \A i, j \in 1..Len(exit_calls) :
          (exit_calls[i] = "transport" /\ exit_calls[j] = "session") => j < i
    /\ close_called =>
          /\ session_res # "none" => ExitCount("session") = 1
          /\ transport_res # "none" => ExitCount("transport") = 1

\* line is nothing but whitespace
IsBlankLine(line) == \A i \in 1..Len(line) : IsSpace(line[i])

\* line is one of the exit commands in any case, with whitespace around it
IsExitLine(line) ==
    \E s \in Sentinels, k \in 0..Len(line) :
        /\ Len(line) >= k + Len(s)
        /\ \A i \in 1..k : IsSpace(line[i])
        /\ \A i \in 1..Len(s) : Lower(line[k + i]) = s[i]
        /\ \A i \in (k + Len(s) + 1)..Len(line) : IsSpace(line[i])

\* C18: when input() returns a line, a blank line starts no turn and the
\* loop reads again; an exit command, in any case and with whitespace around
\* it, ends the loop without a turn; any other line starts a turn on the
\* trimmed line, and that turn is run once before the next line is read.
C18_InputFiltering ==
    [][ /\ (pc = "input" /\ loop_end' # "interrupt") =>
              /\ IsBlankLine(last_line') => (pc' = "input" /\ turn' = turn)
              /\ IsExitLine(last_line') =>
                    (pc' = "finally" /\ loop_end' = "sentinel" /\ turn' = turn)
              /\ (~IsBlankLine(last_line') /\ ~IsExitLine(last_line')) =>
                    /\ pc' = "turn"
                    /\ turn' = turn
                    /\ IsTrimOf(user_input', last_line')
                    /\ user_input' # << >>
        /\ pc = "turn" => (pc' \in {"input", "finally"} /\ turn'.ran)
        /\ pc # "turn" => turn' = turn
      ]_vars

\* The line " Exit " ended the loop before any turn
C18_Witness ==
    /\ loop_end = "sentinel"
    /\ last_line = <<" ", "E", "x", "i", "t", " ">>
    /\ user_input = <<"E", "x", "i", "t">>
    /\ ~turn.ran
    /\ pc = "finally"

=============================================================================
